---- MODULE Spec2Model ----
(***************************************************************************)
(* toydb storage layer: the write-ahead log of src/storage/wal.rs and the  *)
(* LSM engine of src/storage/engines/lsm.rs.                               *)
(*                                                                         *)
(* Byte strings (Vec<u8>, &[u8], file contents) are kept run-length        *)
(* encoded: a sequence of runs <<byte, count>>, count >= 1, no two         *)
(* adjacent runs with the same byte.  The encoding is canonical, so two    *)
(* byte strings are equal exactly when their encodings are, and a string   *)
(* of one mebibyte costs one run.  All sizes are therefore the program's   *)
(* own (MAX_ENTRY_SIZE is 1 MiB, the BufWriter holds 8 KiB).               *)
(***************************************************************************)
EXTENDS Integers, Sequences, FiniteSets, TLC

(***************************************************************************)
(* Byte strings                                                            *)
(***************************************************************************)
BEmpty == <<>>

Min(a, b) == IF a < b THEN a ELSE b

BRep(b, n) == IF n = 0 THEN <<>> ELSE << <<b, n>> >>

RECURSIVE BLen(_)
BLen(bs) == IF bs = <<>> THEN 0 ELSE bs[1][2] + BLen(Tail(bs))

BCat(a, b) ==
    IF a = <<>> THEN b
    ELSE IF b = <<>> THEN a
    ELSE IF a[Len(a)][1] = b[1][1]
         THEN SubSeq(a, 1, Len(a) - 1)
              \o << <<b[1][1], a[Len(a)][2] + b[1][2]>> >>
              \o Tail(b)
         ELSE a \o b

RECURSIVE BTake(_, _)
BTake(bs, n) ==
    IF n = 0 \/ bs = <<>> THEN <<>>
    ELSE IF bs[1][2] <= n THEN BCat(<<bs[1]>>, BTake(Tail(bs), n - bs[1][2]))
    ELSE << <<bs[1][1], n>> >>

RECURSIVE BDrop(_, _)
BDrop(bs, n) ==
    IF n = 0 \/ bs = <<>> THEN bs
    ELSE IF bs[1][2] <= n THEN BDrop(Tail(bs), n - bs[1][2])
    ELSE << <<bs[1][1], bs[1][2] - n>> >> \o Tail(bs)

\* buffer[i], i counted from 0; i < BLen(bs)
RECURSIVE BAt(_, _)
BAt(bs, i) == IF i < bs[1][2] THEN bs[1][1] ELSE BAt(Tail(bs), i - bs[1][2])

\* buffer[from..to]
BSlice(bs, from, to) == BTake(BDrop(bs, from), to - from)

\* (n as u32).to_le_bytes(); n < 2^31 in every use (TLC's integers are 32-bit)
U32ToLe(n) ==
    BCat(BCat(BRep(n % 256, 1), BRep((n \div 256) % 256, 1)),
         BCat(BRep((n \div 65536) % 256, 1), BRep((n \div 16777216) % 256, 1)))

\* u32::from_le_bytes(b) as usize, b of four bytes.  The value goes up to
\* 2^32 - 1 and TLC's integers end at 2^31 - 1, so it is kept exactly as its
\* two 16-bit halves: the number is hi * 65536 + lo.
U32FromLe(b) ==
    [hi |-> BAt(b, 2) + 256 * BAt(b, 3), lo |-> BAt(b, 0) + 256 * BAt(b, 1)]

\* n < 2^31: the number can be written as one integer
USizeFits(n) == n.hi < 32768

\* the number n as one integer, for n < 2^31
USize(n) == n.hi * 65536 + n.lo

\* n > m, for an integer m
USizeGt(n, m) == ~USizeFits(n) \/ USize(n) > m

\* offset + n > len in usize arithmetic (64-bit: the sum cannot wrap)
USizeSumGt(offset, n, len) == USizeGt(n, len - offset)

(***************************************************************************)
(* WAL constants and entries                                               *)
(***************************************************************************)
PUT_TAG == 0
DELETE_TAG == 1
TAG_SIZE == 1
LENGTH_FIELD_SIZE == 4
MAX_ENTRY_SIZE == 1 * 1024 * 1024
\* BufWriter::new(file): the standard library's default capacity
BUF_CAPACITY == 8192

Put(k, v) == [tag |-> "Put", key |-> k, value |-> v]
Delete(k) == [tag |-> "Delete", key |-> k]

\* a slip: the value's length field left out of a Put's size
encoded_size_no_value_len(entry) ==
    IF entry.tag = "Put"
    THEN TAG_SIZE + LENGTH_FIELD_SIZE + BLen(entry.key) + BLen(entry.value)
    ELSE TAG_SIZE + LENGTH_FIELD_SIZE + BLen(entry.key)

encoded_size(entry) ==
    IF entry.tag = "Put"
    THEN TAG_SIZE + LENGTH_FIELD_SIZE + BLen(entry.key)
         + LENGTH_FIELD_SIZE + BLen(entry.value)
    ELSE TAG_SIZE + LENGTH_FIELD_SIZE + BLen(entry.key)

(***************************************************************************)
(* The writer: a BufWriter<File> over a file opened for append.  A writer  *)
(* state is [buf, file, err, n]: the buffered bytes, the bytes the file    *)
(* holds, whether a call has failed, and the number of writes handed to    *)
(* the file so far in this operation.  A fault [at, written] makes the     *)
(* at-th write to the file fail after `written` of its bytes went out      *)
(* (at = 0: no fault).                                                     *)
(***************************************************************************)
NoFault == [at |-> 0, written |-> 0]

\* BufWriter::flush_buf: hand the buffer to the file; on an error the bytes
\* already written leave the buffer and the rest stays in it.
flush_buf(st, fault) ==
    IF st.err \/ st.buf = <<>> THEN st
    ELSE IF st.n + 1 = fault.at
         THEN LET j == Min(fault.written, BLen(st.buf) - 1)
              IN [buf |-> BDrop(st.buf, j), file |-> BCat(st.file, BTake(st.buf, j)),
                  err |-> TRUE, n |-> st.n + 1]
         ELSE [buf |-> <<>>, file |-> BCat(st.file, st.buf),
               err |-> FALSE, n |-> st.n + 1]

\* File::write_all, called by the BufWriter for data of at least its capacity
file_write_all(st, data, fault) ==
    IF st.err THEN st
    ELSE IF st.n + 1 = fault.at
         THEN LET j == Min(fault.written, BLen(data) - 1)
              IN [st EXCEPT !.file = BCat(st.file, BTake(data, j)),
                            !.err = TRUE, !.n = st.n + 1]
         ELSE [st EXCEPT !.file = BCat(st.file, data), !.n = st.n + 1]

\* BufWriter::write_all (with write_all_cold)
write_all(st, data, fault) ==
    IF st.err THEN st
    ELSE IF BLen(data) < BUF_CAPACITY - BLen(st.buf)
         THEN [st EXCEPT !.buf = BCat(st.buf, data)]
         ELSE LET s1 == IF BLen(data) > BUF_CAPACITY - BLen(st.buf)
                        THEN flush_buf(st, fault) ELSE st
              IN IF s1.err THEN s1
                 ELSE IF BLen(data) >= BUF_CAPACITY
                      THEN file_write_all(s1, data, fault)
                      ELSE [s1 EXCEPT !.buf = BCat(s1.buf, data)]

\* BufWriter::flush: flush_buf, then File::flush, which does nothing
flush(st, fault) == flush_buf(st, fault)

\* a slip: a Put's value written before its length field
write_entry_value_before_len(st, entry, fault) ==
    IF entry.tag = "Put"
    THEN LET s1 == write_all(st, BRep(PUT_TAG, 1), fault)
             s2 == write_all(s1, U32ToLe(BLen(entry.key)), fault)
             s3 == write_all(s2, entry.key, fault)
             s4 == write_all(s3, entry.value, fault)
         IN write_all(s4, U32ToLe(BLen(entry.value)), fault)
    ELSE LET s1 == write_all(st, BRep(DELETE_TAG, 1), fault)
             s2 == write_all(s1, U32ToLe(BLen(entry.key)), fault)
         IN write_all(s2, entry.key, fault)

write_entry(st, entry, fault) ==
    IF entry.tag = "Put"
    THEN LET s1 == write_all(st, BRep(PUT_TAG, 1), fault)
             s2 == write_all(s1, U32ToLe(BLen(entry.key)), fault)
             s3 == write_all(s2, entry.key, fault)
             s4 == write_all(s3, U32ToLe(BLen(entry.value)), fault)
         IN write_all(s4, entry.value, fault)
    ELSE LET s1 == write_all(st, BRep(DELETE_TAG, 1), fault)
             s2 == write_all(s1, U32ToLe(BLen(entry.key)), fault)
         IN write_all(s2, entry.key, fault)

\* what append returns once the writer is in state st: Err(e) of the first
\* call that failed, else Ok
append_result(st) ==
    [buf |-> st.buf, file |-> st.file, res |-> IF st.err THEN "Io" ELSE "Ok"]

\* a slip: the length prefix written before the size is checked
append_prefix_first(buf, file, entry, fault) ==
    IF encoded_size(entry) > MAX_ENTRY_SIZE
    THEN [buf |-> BCat(buf, U32ToLe(encoded_size(entry) % 16777216)),
          file |-> file, res |-> "InvalidInput"]
    ELSE append_result(
            flush(write_entry(
                    write_all([buf |-> buf, file |-> file, err |-> FALSE, n |-> 0],
                              U32ToLe(encoded_size(entry)), fault),
                    entry, fault), fault))

\* Wal::append on a writer holding `buf` over a file holding `file`:
\* [buf, file, res], res one of "Ok", "InvalidInput", "Io"
append(buf, file, entry, fault) ==
    LET entry_size == encoded_size(entry)
        st == [buf |-> buf, file |-> file, err |-> FALSE, n |-> 0]
    IN IF entry_size > MAX_ENTRY_SIZE
       THEN [buf |-> buf, file |-> file, res |-> "InvalidInput"]
       ELSE LET s1 == write_all(st, U32ToLe(entry_size), fault)
                s2 == write_entry(s1, entry, fault)
            IN append_result(flush(s2, fault))

append_put(buf, file, key, value, fault) == append(buf, file, Put(key, value), fault)

append_delete(buf, file, key, fault) == append(buf, file, Delete(key), fault)

\* Drop for Wal (flush, the error only printed), then the BufWriter's own
\* drop (flush_buf once more, the error ignored): the bytes the file holds
\* once the value is gone.
drop_second(s1, fault) ==
    [file |-> flush_buf([s1 EXCEPT !.err = FALSE], fault).file, failed |-> s1.err]

drop(buf, file, fault) ==
    drop_second(flush([buf |-> buf, file |-> file, err |-> FALSE, n |-> 0], fault),
                fault)

(***************************************************************************)
(* Reading the log back                                                    *)
(***************************************************************************)
ParseErr == [ok |-> FALSE]

\* a slip: a tag that is not PUT_TAG read as a Delete
parse_entry_else_delete(buffer) ==
    IF buffer = <<>> THEN ParseErr
    ELSE LET tag == BAt(buffer, 0)
             blen == BLen(buffer)
         IN IF 5 > blen THEN ParseErr
            ELSE LET key_len == U32FromLe(BSlice(buffer, 1, 5))
                 IN IF USizeSumGt(5, key_len, blen) THEN ParseErr
                    ELSE LET key == BSlice(buffer, 5, 5 + USize(key_len))
                             off3 == 5 + USize(key_len)
                         IN IF tag # PUT_TAG THEN [ok |-> TRUE, entry |-> Delete(key)]
                            ELSE IF off3 + 4 > blen THEN ParseErr
                            ELSE LET value_len == U32FromLe(BSlice(buffer, off3, off3 + 4))
                                 IN IF USizeSumGt(off3 + 4, value_len, blen) THEN ParseErr
                                    ELSE [ok |-> TRUE,
                                          entry |-> Put(key, BSlice(buffer, off3 + 4,
                                                                   off3 + 4 + USize(value_len)))]

parse_entry(buffer) ==
    IF buffer = <<>> THEN ParseErr
    ELSE LET tag == BAt(buffer, 0)
             blen == BLen(buffer)
             off1 == TAG_SIZE
         IN IF off1 + LENGTH_FIELD_SIZE > blen THEN ParseErr
            ELSE LET key_len == U32FromLe(BSlice(buffer, off1, off1 + LENGTH_FIELD_SIZE))
                     off2 == off1 + LENGTH_FIELD_SIZE
                 IN IF USizeSumGt(off2, key_len, blen) THEN ParseErr
                    ELSE LET key == BSlice(buffer, off2, off2 + USize(key_len))
                             off3 == off2 + USize(key_len)
                         IN IF tag = PUT_TAG
                            THEN IF off3 + LENGTH_FIELD_SIZE > blen THEN ParseErr
                                 ELSE LET value_len == U32FromLe(BSlice(buffer, off3, off3 + LENGTH_FIELD_SIZE))
                                          off4 == off3 + LENGTH_FIELD_SIZE
                                      IN IF USizeSumGt(off4, value_len, blen) THEN ParseErr
                                         ELSE [ok |-> TRUE,
                                               entry |-> Put(key, BSlice(buffer, off4,
                                                                        off4 + USize(value_len)))]
                            ELSE IF tag = DELETE_TAG
                                 THEN [ok |-> TRUE, entry |-> Delete(key)]
                                 ELSE ParseErr

\* a slip: a body cut short taken for the end of the log, as a prefix cut
\* short is
RECURSIVE replay_loop_short_body_ends(_, _)
replay_loop_short_body_ends(rest, entries) ==
    IF BLen(rest) < LENGTH_FIELD_SIZE
    THEN [res |-> "Ok", entries |-> entries]
    ELSE LET entry_length == U32FromLe(BTake(rest, LENGTH_FIELD_SIZE))
             body == BDrop(rest, LENGTH_FIELD_SIZE)
         IN IF USizeGt(entry_length, MAX_ENTRY_SIZE)
            THEN [res |-> "InvalidData", entries |-> <<>>]
            ELSE IF USizeGt(entry_length, BLen(body))
                 THEN [res |-> "Ok", entries |-> entries]
                 ELSE LET p == parse_entry(BTake(body, USize(entry_length)))
                      IN IF ~p.ok
                         THEN [res |-> "InvalidData", entries |-> <<>>]
                         ELSE replay_loop_short_body_ends(BDrop(body, USize(entry_length)),
                                                          Append(entries, p.entry))

\* a slip: the limit taken as exclusive when reading
RECURSIVE replay_loop_limit_exclusive(_, _)
replay_loop_limit_exclusive(rest, entries) ==
    IF BLen(rest) < LENGTH_FIELD_SIZE
    THEN [res |-> "Ok", entries |-> entries]
    ELSE LET entry_length == U32FromLe(BTake(rest, LENGTH_FIELD_SIZE))
             body == BDrop(rest, LENGTH_FIELD_SIZE)
         IN IF USizeGt(entry_length, MAX_ENTRY_SIZE - 1)
            THEN [res |-> "InvalidData", entries |-> <<>>]
            ELSE IF USizeGt(entry_length, BLen(body))
                 THEN [res |-> "UnexpectedEof", entries |-> <<>>]
                 ELSE LET p == parse_entry(BTake(body, USize(entry_length)))
                      IN IF ~p.ok
                         THEN [res |-> "InvalidData", entries |-> <<>>]
                         ELSE replay_loop_limit_exclusive(BDrop(body, USize(entry_length)),
                                                          Append(entries, p.entry))

\* a slip: a record that does not parse skipped, the reading going on
RECURSIVE replay_loop_skips_bad_record(_, _)
replay_loop_skips_bad_record(rest, entries) ==
    IF BLen(rest) < LENGTH_FIELD_SIZE
    THEN [res |-> "Ok", entries |-> entries]
    ELSE LET entry_length == U32FromLe(BTake(rest, LENGTH_FIELD_SIZE))
             body == BDrop(rest, LENGTH_FIELD_SIZE)
         IN IF USizeGt(entry_length, MAX_ENTRY_SIZE)
            THEN [res |-> "InvalidData", entries |-> <<>>]
            ELSE IF USizeGt(entry_length, BLen(body))
                 THEN [res |-> "UnexpectedEof", entries |-> <<>>]
                 ELSE LET p == parse_entry(BTake(body, USize(entry_length)))
                      IN replay_loop_skips_bad_record(
                             BDrop(body, USize(entry_length)),
                             IF p.ok THEN Append(entries, p.entry) ELSE entries)

\* the loop of Wal::replay over the unread bytes `rest`
RECURSIVE replay_loop(_, _)
replay_loop(rest, entries) ==
    IF BLen(rest) < LENGTH_FIELD_SIZE
    THEN [res |-> "Ok", entries |-> entries]
    ELSE LET entry_length == U32FromLe(BTake(rest, LENGTH_FIELD_SIZE))
             body == BDrop(rest, LENGTH_FIELD_SIZE)
         IN IF USizeGt(entry_length, MAX_ENTRY_SIZE)
            THEN [res |-> "InvalidData", entries |-> <<>>]
            ELSE IF USizeGt(entry_length, BLen(body))
                 THEN [res |-> "UnexpectedEof", entries |-> <<>>]
                 ELSE LET p == parse_entry(BTake(body, USize(entry_length)))
                      IN IF ~p.ok
                         THEN [res |-> "InvalidData", entries |-> <<>>]
                         ELSE replay_loop(BDrop(body, USize(entry_length)),
                                          Append(entries, p.entry))

\* Wal::replay(path): File::open fails on a missing file
replay(present, content) ==
    IF ~present THEN [res |-> "NotFound", entries |-> <<>>]
    ELSE replay_loop(content, <<>>)

(***************************************************************************)
(* State                                                                   *)
(***************************************************************************)
VARIABLES
    present,    \* the WAL path names a file
    isOpen,     \* a Wal value is alive
    buf,        \* the bytes in its BufWriter
    file,       \* the bytes the file holds, as the operating system shows them
    okLog,      \* history: the entries whose append returned Ok, in order
    ioErrors,   \* history: the number of appends that returned an I/O error
    crashes,    \* history: the number of machine crashes
    lastCall,   \* the last step taken, with its arguments and its result
    frames,     \* SpecReplay: what the file under replay was assembled from
    memtable,   \* LsmStore.memtable: the MemTable's map
    sstable,    \* LsmStore.sstable: the SSTables, oldest first
    hist,       \* history: per key, the successful mutations, oldest first
    restarts,   \* history: the number of engine restarts
    ops,        \* history: the number of engine calls
    btree       \* BTreeStore.map of a BTreeStore given the same calls

vars == <<present, isOpen, buf, file, okLog, ioErrors, crashes,
          lastCall, frames, memtable, sstable, hist, restarts, ops, btree>>

walVars == <<present, isOpen, buf, file, okLog, ioErrors, crashes>>

lsmVars == <<memtable, sstable, hist, restarts, ops, btree>>

\* what the calls on a bare Wal leave alone
notWal == <<frames, memtable, sstable, hist, restarts, ops, btree>>

(***************************************************************************)
(* Bounds and inputs                                                       *)
(***************************************************************************)
MaxAppends == 3
\* I/O errors and machine crashes in one run
MaxIncidents == 1

KeyEmpty == BEmpty
KeyA == BRep(97, 1)
KeyB == BRep(98, 1)
ValEmpty == BEmpty
ValX == BRep(120, 1)
ValYY == BRep(121, 2)

\* entries of every shape: empty and non-empty fields, a key larger than the
\* BufWriter, encoded sizes of exactly MAX_ENTRY_SIZE and one more
WalEntries ==
    { Put(KeyEmpty, ValEmpty), Put(KeyA, ValX), Delete(KeyA),
      Delete(BRep(7, BUF_CAPACITY + 808)),
      Delete(BRep(7, MAX_ENTRY_SIZE - 5)),
      Delete(BRep(7, MAX_ENTRY_SIZE - 4)),
      Put(KeyA, BRep(7, MAX_ENTRY_SIZE - 9)) }

Faults ==
    { NoFault, [at |-> 1, written |-> 0], [at |-> 1, written |-> 6],
      [at |-> 2, written |-> 2] }

(***************************************************************************)
(* The WAL on its file: one action per call, and the environment           *)
(***************************************************************************)
WalInit ==
    /\ present = FALSE
    /\ isOpen = FALSE
    /\ buf = <<>>
    /\ file = <<>>
    /\ okLog = <<>>
    /\ ioErrors = 0
    /\ crashes = 0

LsmIdle ==
    /\ memtable = <<>>
    /\ sstable = <<>>
    /\ hist = <<>>
    /\ restarts = 0
    /\ ops = 0
    /\ btree = <<>>

Init ==
    /\ WalInit
    /\ LsmIdle
    /\ frames = <<>>
    /\ lastCall = [op |-> "none"]

\* a slip: the file opened with truncate(true)
Open_truncating ==
    /\ ~isOpen
    /\ present' = TRUE
    /\ isOpen' = TRUE
    /\ buf' = <<>>
    /\ file' = <<>>
    /\ lastCall' = [op |-> "open", res |-> "Ok"]
    /\ UNCHANGED <<okLog, ioErrors, crashes>>
    /\ UNCHANGED notWal

\* Wal::open: create(true).append(true), a fresh BufWriter
Open ==
    /\ ~isOpen
    /\ present' = TRUE
    /\ isOpen' = TRUE
    /\ buf' = <<>>
    /\ lastCall' = [op |-> "open", res |-> "Ok"]
    /\ UNCHANGED <<file, okLog, ioErrors, crashes>>
    /\ UNCHANGED notWal

\* the state once append(entry) has returned r
WalAppended(r, entry) ==
    /\ buf' = r.buf
    /\ file' = r.file
    /\ okLog' = IF r.res = "Ok" THEN Append(okLog, entry) ELSE okLog
    /\ ioErrors' = IF r.res = "Io" THEN ioErrors + 1 ELSE ioErrors
    /\ lastCall' = [op |-> "append", entry |-> entry, res |-> r.res,
                    preBuf |-> buf, preFile |-> file]

\* Wal::append(entry), the file failing as `fault` says
WalAppend(entry, fault) ==
    /\ isOpen
    /\ Len(okLog) < MaxAppends
    /\ fault # NoFault => ioErrors + crashes < MaxIncidents
    /\ WalAppended(append(buf, file, entry, fault), entry)
    /\ UNCHANGED <<present, isOpen, crashes>>
    /\ UNCHANGED notWal

\* the file once the Wal value is gone
WalDropped(r) ==
    /\ file' = r.file
    /\ ioErrors' = IF r.failed THEN ioErrors + 1 ELSE ioErrors

\* the Wal value goes out of scope
WalDrop(fault) ==
    /\ isOpen
    /\ fault # NoFault => ioErrors + crashes < MaxIncidents
    /\ isOpen' = FALSE
    /\ buf' = <<>>
    /\ WalDropped(drop(buf, file, fault))
    /\ lastCall' = [op |-> "drop"]
    /\ UNCHANGED <<present, okLog, crashes>>
    /\ UNCHANGED notWal

\* Wal::replay(path)
WalReplay ==
    /\ lastCall' = [op |-> "replay"] @@ replay(present, file)
    /\ UNCHANGED walVars
    /\ UNCHANGED notWal

\* the process dies: the BufWriter's bytes are gone, the file's are not
ProcessCrash ==
    /\ isOpen
    /\ isOpen' = FALSE
    /\ buf' = <<>>
    /\ lastCall' = [op |-> "process_crash"]
    /\ UNCHANGED <<present, file, okLog, ioErrors, crashes>>
    /\ UNCHANGED notWal

\* the machine dies.  No call of the program waits for the medium (append
\* ends with BufWriter::flush, which hands the bytes to the operating system;
\* there is no sync_all or sync_data), so the file keeps whatever leading
\* part the operating system had written back by then: `kept` bytes.
MachineCrash(kept) ==
    /\ present
    /\ ioErrors + crashes < MaxIncidents
    /\ kept >= 0
    /\ kept <= BLen(file)
    /\ isOpen' = FALSE
    /\ buf' = <<>>
    /\ file' = BTake(file, kept)
    /\ crashes' = crashes + 1
    /\ lastCall' = [op |-> "machine_crash"]
    /\ UNCHANGED <<present, okLog, ioErrors>>
    /\ UNCHANGED notWal

Next ==
    \/ Open
    \/ \E e \in WalEntries, f \in Faults : WalAppend(e, f)
    \/ \E f \in Faults : WalDrop(f)
    \/ WalReplay
    \/ ProcessCrash
    \/ \E kept \in {0, BLen(file) - 2, BLen(file)} : MachineCrash(kept)

Spec == Init /\ [][Next]_vars

(***************************************************************************)
(* Replay of a file of any content (specification SpecReplay).  The file   *)
(* is a concatenation of frames; a frame is what was put where a record    *)
(* should be: the bytes of a length prefix (all four or fewer) and the     *)
(* bytes after it.                                                         *)
(***************************************************************************)
MaxFrames == 3

Frame(kind, prefix, body) == [kind |-> kind, prefix |-> prefix, body |-> body]

\* tag, key length, key
RawKeyPart(tag, klen, key) == BCat(BRep(tag, 1), BCat(U32ToLe(klen), key))

\* tag, key length, key, value length, value
RawPut(tag, klen, key, vlen, value) ==
    BCat(RawKeyPart(tag, klen, key), BCat(U32ToLe(vlen), value))

FrameKinds ==
    { Frame("put", U32ToLe(11), RawPut(0, 1, KeyA, 1, ValX)),
      Frame("delete", U32ToLe(6), RawKeyPart(1, 1, KeyA)),
      Frame("put_empty", U32ToLe(9), RawPut(0, 0, KeyEmpty, 0, ValEmpty)),
      Frame("tag2_delete_shaped", U32ToLe(6), RawKeyPart(2, 1, KeyA)),
      Frame("tag255_put_shaped", U32ToLe(11), RawPut(255, 1, KeyA, 1, ValX)),
      Frame("tag7_alone", U32ToLe(1), BRep(7, 1)),
      Frame("zero_length", U32ToLe(0), BEmpty),
      Frame("oversized", U32ToLe(MAX_ENTRY_SIZE + 1), BRep(1, 3)),
      Frame("length_top_bit", BCat(BRep(0, 3), BRep(128, 1)), BRep(1, 3)),
      Frame("key_len_all_ones", U32ToLe(6),
            BCat(BRep(1, 1), BCat(BRep(255, 4), KeyA))),
      Frame("key_past_end", U32ToLe(6), RawKeyPart(1, 5, KeyA)),
      Frame("value_past_end", U32ToLe(11), RawPut(0, 1, KeyA, 5, ValX)),
      Frame("delete_with_slack", U32ToLe(8), BCat(RawKeyPart(1, 1, KeyA), BRep(9, 2))),
      Frame("prefix_1_of_4", BTake(U32ToLe(6), 1), BEmpty),
      Frame("prefix_2_of_4", BTake(U32ToLe(6), 2), BEmpty),
      Frame("prefix_3_of_4", BTake(U32ToLe(6), 3), BEmpty),
      Frame("body_3_of_6", U32ToLe(6), BTake(RawKeyPart(1, 1, KeyA), 3)),
      Frame("body_0_of_11", U32ToLe(11), BEmpty) }

FrameBytes(f) == BCat(f.prefix, f.body)

RECURSIVE FramesBytes(_)
FramesBytes(fs) ==
    IF fs = <<>> THEN <<>> ELSE BCat(FrameBytes(Head(fs)), FramesBytes(Tail(fs)))

FrameSeqs == UNION { [1..n -> FrameKinds] : n \in 0..MaxFrames }

\* a frame that holds a whole record: the four prefix bytes and as many
\* bytes after them as they declare
WholeFrame(f) ==
    /\ BLen(f.prefix) = 4
    /\ USizeFits(U32FromLe(f.prefix))
    /\ BLen(f.body) = USize(U32FromLe(f.prefix))

\* a frame that is a well-formed record of the format
ValidFrame(f) == f.kind \in {"put", "delete", "put_empty"}

ReplayInit ==
    /\ frames \in FrameSeqs
    /\ file = FramesBytes(frames)
    /\ present = TRUE
    /\ isOpen = FALSE
    /\ buf = <<>>
    /\ okLog = <<>>
    /\ ioErrors = 0
    /\ crashes = 0
    /\ LsmIdle
    /\ lastCall = [op |-> "none"]

\* Wal::replay(path) on that file
ReplayFile ==
    /\ lastCall.op = "none"
    /\ lastCall' = [op |-> "replay"] @@ replay(present, file)
    /\ UNCHANGED walVars
    /\ UNCHANGED notWal

SpecReplay == ReplayInit /\ [][ReplayFile]_vars

(***************************************************************************)
(* The LSM engine (specification SpecLsm).  lsm.rs holds LsmStore's new,   *)
(* put, get and delete; what they call on the MemTable and the SSTables    *)
(* (insert, get, size, flush_memtable) is declared or used there but not   *)
(* written, and follows the design's sections 4.2, 4.3 and 4.5.  The       *)
(* engine's WAL is the Wal above.                                          *)
(***************************************************************************)
MaxOps == 4
MaxRestarts == 1

\* self.max_memtable_size, a setting of the engine
max_memtable_size == 2

LsmKeys == {KeyA, KeyB}
LsmValues == {ValX, ValYY}
LsmFaults == {NoFault, [at |-> 1, written |-> 0]}

None == [some |-> FALSE]
Some(v) == [some |-> TRUE, value |-> v]

\* HashMap::new()
EmptyMap == [k \in {} |-> <<>>]

\* HashMap::remove
MapRemove(m, key) == [k \in DOMAIN m \ {key} |-> m[k]]

\* MemTable.insert: upsert
MemTable_insert(m, key, value) ==
    [k \in DOMAIN m \cup {key} |-> IF k = key THEN value ELSE m[k]]

\* MemTable.get
MemTable_get(m, key) == IF key \in DOMAIN m THEN Some(m[key]) ELSE None

\* MemTable.size: the bytes of the keys and values held
RECURSIVE SizeOver(_, _)
SizeOver(m, keys) ==
    IF keys = {} THEN 0
    ELSE LET k == CHOOSE x \in keys : TRUE
         IN BLen(k) + BLen(m[k]) + SizeOver(m, keys \ {k})

MemTable_size(m) == SizeOver(m, DOMAIN m)

\* the lookup over the SSTables, oldest first in `tables`: from the newest
\* generation to the oldest, the first table that holds the key decides
RECURSIVE SSTables_get(_, _)
SSTables_get(tables, key) ==
    IF tables = <<>> THEN None
    ELSE LET t == tables[Len(tables)]
         IN IF key \in DOMAIN t.entries THEN Some(t.entries[key])
            ELSE SSTables_get(SubSeq(tables, 1, Len(tables) - 1), key)

\* flush_memtable: the MemTable becomes a new level-0 SSTable of the next
\* generation, a fresh MemTable and a fresh WAL segment take over
flush_memtable(st) ==
    [memtable |-> EmptyMap,
     sstable |-> Append(st.sstable,
                        [generation |-> Len(st.sstable) + 1, level |-> 0,
                         entries |-> st.memtable]),
     buf |-> <<>>,
     file |-> <<>>]

\* LsmStore::new
LsmStore_new == [memtable |-> EmptyMap, sstable |-> <<>>]

\* a slip: the SSTables consulted before the MemTable
LsmStore_get_sstable_first(st, key) ==
    IF SSTables_get(st.sstable, key) # None THEN SSTables_get(st.sstable, key)
    ELSE MemTable_get(st.memtable, key)

\* LsmStore::get
LsmStore_get(st, key) ==
    IF MemTable_get(st.memtable, key) # None THEN MemTable_get(st.memtable, key)
    ELSE IF SSTables_get(st.sstable, key) # None THEN SSTables_get(st.sstable, key)
    ELSE None

\* a slip: the MemTable updated before the WAL append's result is looked at
LsmStore_put_memtable_first(st, w, key, value) ==
    LET s1 == [memtable |-> MemTable_insert(st.memtable, key, value),
               sstable |-> st.sstable, buf |-> w.buf, file |-> w.file]
    IN IF w.res # "Ok"
       THEN s1 @@ [res |-> w.res, size_checked |-> FALSE]
       ELSE (IF MemTable_size(s1.memtable) > max_memtable_size
             THEN flush_memtable(s1) ELSE s1)
            @@ [res |-> "Ok", size_checked |-> TRUE]

\* LsmStore::put on the engine st = [memtable, sstable, buf, file]
\* w is what self.wal.append_put returned; size_checked tells whether the
\* call came to compare memtable.size() with max_memtable_size
LsmStore_put_after_wal(st, w, key, value) ==
    IF w.res # "Ok"
    THEN [memtable |-> st.memtable, sstable |-> st.sstable,
          buf |-> w.buf, file |-> w.file, res |-> w.res, size_checked |-> FALSE]
    ELSE LET s1 == [memtable |-> MemTable_insert(st.memtable, key, value),
                    sstable |-> st.sstable, buf |-> w.buf, file |-> w.file]
         IN (IF MemTable_size(s1.memtable) > max_memtable_size
             THEN flush_memtable(s1) ELSE s1)
            @@ [res |-> "Ok", size_checked |-> TRUE]

LsmStore_put(st, key, value, fault) ==
    LsmStore_put_after_wal(st, append_put(st.buf, st.file, key, value, fault),
                           key, value)

\* LsmStore::delete, statement by statement: the WAL append; then
\* memtable.insert(key, value), `value` being a name the function does not
\* bind (any bytes); then self.map.remove(key), the map being the one the
\* engine has, the MemTable's.  No tombstone is stored and the flush
\* threshold is not looked at.
LsmStore_delete_after_wal(st, w, key, value) ==
    IF w.res # "Ok"
    THEN [memtable |-> st.memtable, sstable |-> st.sstable,
          buf |-> w.buf, file |-> w.file, res |-> w.res, size_checked |-> FALSE]
    ELSE [memtable |-> MapRemove(MemTable_insert(st.memtable, key, value), key),
          sstable |-> st.sstable, buf |-> w.buf, file |-> w.file,
          res |-> "Ok", size_checked |-> FALSE]

LsmStore_delete(st, key, value, fault) ==
    LsmStore_delete_after_wal(st, append_delete(st.buf, st.file, key, fault),
                              key, value)

\* BTreeStore::new
BTreeStore_new == EmptyMap

\* BTreeStore::put: HashMap::insert
BTreeStore_put(map, key, value) ==
    [k \in DOMAIN map \cup {key} |-> IF k = key THEN value ELSE map[k]]

\* BTreeStore::get: HashMap::get
BTreeStore_get(map, key) == IF key \in DOMAIN map THEN Some(map[key]) ELSE None

\* BTreeStore::delete: HashMap::remove
BTreeStore_delete(map, key) == MapRemove(map, key)

Engine == [memtable |-> memtable, sstable |-> sstable, buf |-> buf, file |-> file]

\* the last two successful mutations of a key
Push(h, x) == IF Len(h) < 2 THEN Append(h, x) ELSE <<h[2], x>>

LsmInit ==
    /\ present = TRUE
    /\ isOpen = TRUE
    /\ buf = <<>>
    /\ file = <<>>
    /\ okLog = <<>>
    /\ ioErrors = 0
    /\ crashes = 0
    /\ frames = <<>>
    /\ memtable = LsmStore_new.memtable
    /\ sstable = LsmStore_new.sstable
    /\ hist = [k \in LsmKeys |-> <<>>]
    /\ restarts = 0
    /\ ops = 0
    /\ btree = BTreeStore_new
    /\ lastCall = [op |-> "new"]

\* the state once a put or delete of `key` has returned r
LsmMutated(r, key, mutation) ==
    /\ memtable' = r.memtable
    /\ sstable' = r.sstable
    /\ buf' = r.buf
    /\ file' = r.file
    /\ ioErrors' = IF r.res = "Ok" THEN ioErrors ELSE ioErrors + 1
    /\ hist' = IF r.res = "Ok" THEN [hist EXCEPT ![key] = Push(@, mutation)] ELSE hist
    /\ lastCall' = mutation @@ [key |-> key, res |-> r.res,
                                size_checked |-> r.size_checked]

LsmPut(key, value, fault) ==
    /\ ops < MaxOps
    /\ fault # NoFault => ioErrors < MaxIncidents
    /\ LsmMutated(LsmStore_put(Engine, key, value, fault), key,
                  [op |-> "put", value |-> value])
    /\ btree' = BTreeStore_put(btree, key, value)
    /\ ops' = ops + 1
    /\ UNCHANGED <<present, isOpen, okLog, crashes, frames, restarts>>

LsmDelete(key, value, fault) ==
    /\ ops < MaxOps
    /\ fault # NoFault => ioErrors < MaxIncidents
    /\ LsmMutated(LsmStore_delete(Engine, key, value, fault), key,
                  [op |-> "delete"])
    /\ btree' = BTreeStore_delete(btree, key)
    /\ ops' = ops + 1
    /\ UNCHANGED <<present, isOpen, okLog, crashes, frames, restarts>>

LsmGet(key) ==
    /\ lastCall' = [op |-> "get", key |-> key, res |-> LsmStore_get(Engine, key)]
    /\ UNCHANGED walVars
    /\ UNCHANGED notWal

\* the process ends without a close and a new engine is built with
\* LsmStore::new over the same directory: the files are as they were, the
\* old writer's buffered bytes are gone
LsmRestart ==
    /\ restarts < MaxRestarts
    /\ memtable' = LsmStore_new.memtable
    /\ sstable' = LsmStore_new.sstable
    /\ buf' = <<>>
    /\ restarts' = restarts + 1
    /\ btree' = BTreeStore_new
    /\ lastCall' = [op |-> "restart"]
    /\ UNCHANGED <<present, isOpen, file, okLog, ioErrors, crashes, frames, hist, ops>>

LsmNext ==
    \/ \E k \in LsmKeys, v \in LsmValues, f \in LsmFaults : LsmPut(k, v, f)
    \/ \E k \in LsmKeys, v \in LsmValues, f \in LsmFaults : LsmDelete(k, v, f)
    \/ \E k \in LsmKeys : LsmGet(k)
    \/ LsmRestart

SpecLsm == LsmInit /\ [][LsmNext]_vars

(***************************************************************************)
(* The record the format gives an entry: [u32 total_length][u8 tag]        *)
(* [u32 key_length][key], and for a Put [u32 value_length][value], all     *)
(* little-endian, total_length counting what follows it.                   *)
(***************************************************************************)
ExpectedRecord(entry) ==
    LET keyPart == BCat(U32ToLe(BLen(entry.key)), entry.key)
    IN IF entry.tag = "Put"
       THEN BCat(U32ToLe(9 + BLen(entry.key) + BLen(entry.value)),
                 BCat(BRep(0, 1),
                      BCat(keyPart, BCat(U32ToLe(BLen(entry.value)), entry.value))))
       ELSE BCat(U32ToLe(5 + BLen(entry.key)), BCat(BRep(1, 1), keyPart))

RECURSIVE ExpectedRecords(_)
ExpectedRecords(entries) ==
    IF entries = <<>> THEN <<>>
    ELSE BCat(ExpectedRecord(Head(entries)), ExpectedRecords(Tail(entries)))

(***************************************************************************)
(* Claims on the WAL (specification Spec)                                  *)
(***************************************************************************)

\* C1: on a path that was fresh when first opened, with no append failed by
\* an I/O error and no machine crash, Wal::replay succeeds and returns
\* exactly the entries whose append returned Ok: as many, in the same
\* order, each with its variant, key and value.
C1_ReplayReturnsAppended ==
    (lastCall.op = "replay" /\ present /\ ioErrors = 0 /\ crashes = 0)
        => (lastCall.res = "Ok" /\ lastCall.entries = okLog)

C1_Witness ==
    /\ lastCall.op = "replay"
    /\ ioErrors = 0
    /\ crashes = 0
    /\ lastCall.res = "Ok"
    /\ okLog = <<Put(KeyA, ValX), Put(KeyEmpty, ValEmpty), Delete(KeyA)>>
    /\ lastCall.entries = okLog

\* C3: an entry whose append returned Ok survives a crash of the machine:
\* after the crash, replay yields every acknowledged entry.
C3_AcknowledgedSurvivesMachineCrash ==
    (lastCall.op = "machine_crash" /\ ioErrors = 0)
        => replay(present, file) = [res |-> "Ok", entries |-> okLog]

\* C4: between calls and after drop the file holds exactly the records of
\* the appends that returned Ok, in order, and no byte of a failed append.
C4_FileIsAcceptedRecords ==
    crashes = 0 => file = ExpectedRecords(okLog)

\* C5: an append of an entry whose encoded size exceeds MAX_ENTRY_SIZE
\* fails with the size error (io::ErrorKind::InvalidInput) and leaves the
\* file and the write buffer as they were before the call.
C5_TooLargeRejected ==
    (lastCall.op = "append" /\ encoded_size(lastCall.entry) > MAX_ENTRY_SIZE)
        => /\ lastCall.res = "InvalidInput"
           /\ file = lastCall.preFile
           /\ buf = lastCall.preBuf
           /\ replay(present, file) = replay(present, lastCall.preFile)

C5_Witness ==
    /\ lastCall.op = "append"
    /\ lastCall.res = "InvalidInput"
    /\ encoded_size(lastCall.entry) = MAX_ENTRY_SIZE + 1
    /\ okLog = <<Delete(BRep(7, MAX_ENTRY_SIZE - 5)), Put(KeyA, ValX)>>
    /\ file = lastCall.preFile
    /\ file # <<>>

(***************************************************************************)
(* Claims on replay (specification SpecReplay)                             *)
(***************************************************************************)
Last(q) == q[Len(q)]

Front(q) == SubSeq(q, 1, Len(q) - 1)

AllValid(fs) == \A i \in 1..Len(fs) : ValidFrame(fs[i])

\* C6: a file that ends, after whole well-formed records, with one to three
\* bytes of a length prefix makes replay report an error.
C6_PartialPrefixIsError ==
    (/\ lastCall.op = "replay"
     /\ frames # <<>>
     /\ AllValid(Front(frames))
     /\ BLen(Last(frames).prefix) \in 1..3)
        => lastCall.res # "Ok"

\* C7: a file whose last record has all four prefix bytes and fewer bytes
\* after them than they declare makes replay return an error, whatever came
\* before it.
C7_ShortBodyIsError ==
    (/\ lastCall.op = "replay"
     /\ frames # <<>>
     /\ \A i \in 1..(Len(frames) - 1) : WholeFrame(frames[i])
     /\ BLen(Last(frames).prefix) = 4
     /\ USizeGt(U32FromLe(Last(frames).prefix), BLen(Last(frames).body)))
        => lastCall.res # "Ok"

C7_Witness ==
    /\ lastCall.op = "replay"
    /\ Len(frames) = 3
    /\ AllValid(Front(frames))
    /\ Last(frames).kind = "body_0_of_11"
    /\ lastCall.res = "UnexpectedEof"

\* C8: a file of whole records, one of them with a tag byte other than 0
\* and 1, makes replay return the corruption error (InvalidData) and no
\* entry, wherever that record is and whatever else it holds.
C8_UnknownTagIsCorruption ==
    (/\ lastCall.op = "replay"
     /\ \A i \in 1..Len(frames) : WholeFrame(frames[i])
     /\ \E i \in 1..Len(frames) :
            /\ frames[i].body # <<>>
            /\ BAt(frames[i].body, 0) \notin {0, 1})
        => (lastCall.res = "InvalidData" /\ lastCall.entries = <<>>)

C8_Witness ==
    /\ lastCall.op = "replay"
    /\ Len(frames) = 3
    /\ frames[1].kind = "put"
    /\ frames[2].kind = "delete"
    /\ frames[3].kind = "tag2_delete_shaped"
    /\ lastCall.res = "InvalidData"

(***************************************************************************)
(* Claims on the engine (specification SpecLsm)                            *)
(***************************************************************************)

\* what get owes a key whose successful mutations are h
Expected(h) ==
    IF h # <<>> /\ Last(h).op = "put" THEN Some(Last(h).value) ELSE None

\* C2: after a restart without a close, get returns for every key the value
\* of the last put or delete applied to it (None if deleted or never
\* written).
C2_RestartKeepsLastWrite ==
    restarts > 0 =>
        \A k \in LsmKeys : LsmStore_get(Engine, k) = Expected(hist[k])

\* C9: on one engine, once put(k, v1) and then put(k, v2) have succeeded,
\* with any calls on other keys in between and after, get(k) returns v2.
C9_LastWriteWins ==
    \A k \in LsmKeys :
        (/\ restarts = 0
         /\ Len(hist[k]) = 2
         /\ hist[k][1].op = "put"
         /\ hist[k][2].op = "put")
            => LsmStore_get(Engine, k) = Some(hist[k][2].value)

C9_Witness ==
    /\ restarts = 0
    /\ lastCall.op = "get"
    /\ lastCall.key = KeyA
    /\ hist[KeyA] = <<[op |-> "put", value |-> ValYY], [op |-> "put", value |-> ValX]>>
    /\ hist[KeyB] # <<>>
    /\ Len(sstable) > 0
    /\ KeyA \in DOMAIN sstable[1].entries
    /\ sstable[1].entries[KeyA] = ValYY
    /\ lastCall.res = Some(ValX)

\* C10: on one engine, once put(k, v) and then delete(k) have succeeded,
\* get(k) returns None, also when a flush came between the two.
C10_TombstonePrecedence ==
    \A k \in LsmKeys :
        (/\ restarts = 0
         /\ Len(hist[k]) = 2
         /\ hist[k][1].op = "put"
         /\ hist[k][2].op = "delete")
            => LsmStore_get(Engine, k) = None

\* C12: from freshly created engines given the same puts, gets and deletes
\* (none of them failed by the WAL's file), LsmStore and BTreeStore return
\* the same result for every get.
C12_EnginesAgree ==
    (restarts = 0 /\ ioErrors = 0) =>
        \A k \in LsmKeys : LsmStore_get(Engine, k) = BTreeStore_get(btree, k)

\* a whole record that is malformed: an unknown tag, a declared length of
\* zero or above the limit, a field running past the record's end
MalformedFrame(f) ==
    f.kind \in {"tag2_delete_shaped", "tag255_put_shaped", "tag7_alone",
                "zero_length", "oversized", "length_top_bit", "key_past_end",
                "key_len_all_ones", "value_past_end"}

\* a record whose body is shorter than declared
ShortBodyFrame(f) == f.kind \in {"body_3_of_6", "body_0_of_11"}

\* C17: when replay meets a malformed record (after well-formed ones, and
\* whatever follows it; a short body being the file's last record), it
\* returns an error and no entry, never Ok with the entries before or
\* around it.
C17_ReplayAllOrNothing ==
    (/\ lastCall.op = "replay"
     /\ \E i \in 1..Len(frames) :
            /\ AllValid(SubSeq(frames, 1, i - 1))
            /\ \/ MalformedFrame(frames[i])
               \/ (i = Len(frames) /\ ShortBodyFrame(frames[i])))
        => (lastCall.res \in {"InvalidData", "UnexpectedEof"}
            /\ lastCall.entries = <<>>)

C17_Witness ==
    /\ lastCall.op = "replay"
    /\ Len(frames) = 3
    /\ frames[1].kind = "put"
    /\ frames[2].kind = "key_past_end"
    /\ frames[3].kind = "delete"
    /\ lastCall.res = "InvalidData"
    /\ lastCall.entries = <<>>

\* C18: when replay returns Ok, appending the entries it returned, in order,
\* to a fresh log gives the file it read, byte for byte: no byte inside a
\* record or after the last record is left unparsed.
C18_DecodingExact ==
    (lastCall.op = "replay" /\ lastCall.res = "Ok")
        => ExpectedRecords(lastCall.entries) = file

(***************************************************************************)
(* More claims on the WAL (specification Spec)                             *)
(***************************************************************************)

\* C13: an append that returns Ok adds to the log, after what the file and
\* the writer held, one record [u32 total_length][u8 tag][u32 key_length]
\* [key] and, for a Put only, [u32 value_length][value], little-endian, the
\* total_length being the number of bytes after it: 1 + 4 + |key| for a
\* Delete, 1 + 4 + |key| + 4 + |value| for a Put.
C13_RecordLayout ==
    (lastCall.op = "append" /\ lastCall.res = "Ok") =>
        LET e == lastCall.entry
            before == BCat(lastCall.preFile, lastCall.preBuf)
            rec == BDrop(file, BLen(before))
        IN /\ BTake(file, BLen(before)) = before
           /\ rec = ExpectedRecord(e)
           /\ USize(U32FromLe(BTake(rec, 4))) = BLen(rec) - 4
           /\ USize(U32FromLe(BTake(rec, 4))) =
                  IF e.tag = "Put" THEN 1 + 4 + BLen(e.key) + 4 + BLen(e.value)
                  ELSE 1 + 4 + BLen(e.key)

C13_Witness ==
    /\ lastCall.op = "append"
    /\ lastCall.res = "Ok"
    /\ lastCall.entry = Put(KeyA, ValX)
    /\ okLog = <<Delete(KeyA), Put(KeyA, ValX)>>
    /\ file = << <<6, 1>>, <<0, 3>>, <<1, 2>>, <<0, 3>>, <<97, 1>>,
                 <<11, 1>>, <<0, 4>>, <<1, 1>>, <<0, 3>>, <<97, 1>>,
                 <<1, 1>>, <<0, 3>>, <<120, 1>> >>

\* the size the limit is about: the record without its 4-byte length prefix
SizeWithoutPrefix(entry) == BLen(ExpectedRecord(entry)) - 4

\* C16: append accepts an entry exactly when its encoded size without the
\* length prefix is at most 1,048,576 (so it accepts 1,048,576 and rejects
\* 1,048,577), and replay of a log written by such appends succeeds with as
\* many entries as were accepted: no accepted entry is refused for its size.
C16_LimitInclusive ==
    /\ (lastCall.op = "append" /\ lastCall.res # "Io")
           => (lastCall.res = "Ok"
                   <=> SizeWithoutPrefix(lastCall.entry) <= 1048576)
    /\ (lastCall.op = "replay" /\ present /\ ioErrors = 0 /\ crashes = 0)
           => (lastCall.res = "Ok" /\ Len(lastCall.entries) = Len(okLog))

C16_Witness ==
    /\ lastCall.op = "replay"
    /\ lastCall.res = "Ok"
    /\ okLog = <<Put(KeyA, ValX), Delete(BRep(7, 1048571))>>
    /\ SizeWithoutPrefix(okLog[2]) = 1048576
    /\ lastCall.entries = okLog

\* C19: Wal::open leaves the content of an existing file as it is, and a
\* file it creates replays to no entry; a Wal opened and dropped with no
\* append between leaves the file as it is; and replay returns the entries
\* accepted in all the sessions so far, in order (no I/O error, no machine
\* crash).
C19_OpenKeepsFile ==
    [][/\ (~isOpen /\ isOpen') => (present' /\ file' = file)
       /\ (~present /\ present')
              => replay(present, file)' = [res |-> "Ok", entries |-> <<>>]
       /\ (lastCall.op = "open" /\ lastCall'.op = "drop") => file' = file
       /\ (lastCall'.op = "replay" /\ present /\ ioErrors = 0 /\ crashes = 0)
              => lastCall'.entries = okLog]_vars

C19_Witness ==
    /\ lastCall.op = "open"
    /\ isOpen
    /\ okLog = <<Put(KeyA, ValX), Delete(KeyA)>>
    /\ file = ExpectedRecords(okLog)
    /\ replay(present, file) = [res |-> "Ok", entries |-> okLog]

(***************************************************************************)
(* More claims on the engine (specification SpecLsm)                       *)
(***************************************************************************)

\* C14: a put or delete whose WAL append returns an error returns that
\* error with the MemTable and the SSTable list as they were, so get
\* answers for every key what it answered before the call.
C14_WalBeforeMemTable ==
    [][(/\ ops' = ops + 1
        /\ lastCall'.op \in {"put", "delete"}
        /\ lastCall'.res # "Ok")
           => (/\ lastCall'.res = "Io"
               /\ memtable' = memtable
               /\ sstable' = sstable
               /\ \A k \in LsmKeys :
                      LsmStore_get(Engine, k)' = LsmStore_get(Engine, k))]_vars

C14_Witness ==
    /\ lastCall.op = "put"
    /\ lastCall.key = KeyA
    /\ lastCall.res = "Io"
    /\ hist[KeyA] = <<>>
    /\ DOMAIN memtable = {KeyB}
    /\ LsmStore_get(Engine, KeyA) = None
    /\ LsmStore_get(Engine, KeyB) = Some(ValX)

\* C15: every put and every delete that succeeds compares MemTable.size()
\* with the flush threshold after applying its mutation (and flushes when
\* it is larger), so between calls the MemTable's size is at most the
\* threshold.
C15_FlushThresholdChecked ==
    /\ (lastCall.op \in {"put", "delete"} /\ lastCall.res = "Ok")
           => lastCall.size_checked
    /\ MemTable_size(memtable) <= max_memtable_size

====
